---------------------------- MODULE Spec2Model ----------------------------
(***************************************************************************)
(* Billing event reconciliation and rating pipeline of jupiter_backend:    *)
(* the api_usage_logs table, the two reconciliation implementations        *)
(* (BillingProcessor.process_billing_entry and the request-triggered       *)
(* process_billing_entry_async), the background sweeps, the startup pass,  *)
(* ingestion through POST /billing, direct usage logging with discount     *)
(* selection, monthly bill generation and the payment webhook.             *)
(*                                                                         *)
(* Conventions.  Text is a sequence of one-character strings.  Money is an *)
(* integer number of micro-dollars (0.01 $ = 10000).  A nullable integer   *)
(* column holds 0 for NULL (ids start at 1), a nullable timestamp holds    *)
(* NoTime, a nullable text column holds <<>> and error_message holds the   *)
(* string "NULL".  Numeric columns are read back as Decimal values; where  *)
(* the code mixes them with Python floats, the TypeError Python raises is  *)
(* part of the control flow and is modelled as such.  The database is      *)
(* taken to evaluate every query as its ORM expression reads and to accept *)
(* every INSERT and UPDATE the code sends.                                 *)
(***************************************************************************)
EXTENDS Integers, Sequences, FiniteSets, TLC

\* ------------------------------------------------------------------ bounds
NumLogs == 2            \* rows in api_usage_logs at start
MaxTime == 1            \* the clock runs over 0..MaxTime (one tick = one month)
MaxRetryCount == 4      \* retry_count is held at this value once it reaches it
MaxBillRuns == 2        \* runs of generate_monthly_bills that insert rows
MaxDirect == 1          \* calls of log_api_usage
BatchLimit == 1         \* stands for limit=50 of the default sweep (main.py:128)
MaxIngest == 2          \* requests to POST /billing
MaxBatch == 2           \* events in one request to POST /billing/batch

\* ------------------------------------------------------- program constants
MaxRetries == 3         \* reprocess_failed_entries(max_retries=3)
FailedBatchLimit == 50  \* .limit(50) of reprocess_failed_entries
StartupLimit == 100     \* get_unprocessed_entries(limit=100) at startup
StartupSlice == 10      \* unprocessed[:10]
DefaultRequestPrice == 10000  \* 0.01 $ per request
GraceDays == 7          \* payment_due_date = today + 7 days

NoTime == 0 - 1
NoText == << >>

\* -------------------------------------------------------------------- text
\* str.lower() on the characters that occur in the directories and tags
LowerChar(c) ==
    CASE c = "A" -> "a" [] c = "B" -> "b" [] c = "C" -> "c" [] c = "E" -> "e"
      [] c = "S" -> "s" [] OTHER -> c

Lower(s) == [i \in 1..Len(s) |-> LowerChar(s[i])]

RECURSIVE LStrip(_)
LStrip(s) == IF s # << >> /\ Head(s) = " " THEN LStrip(Tail(s)) ELSE s

RECURSIVE RStrip(_)
RStrip(s) ==
    IF s # << >> /\ s[Len(s)] = " " THEN RStrip(SubSeq(s, 1, Len(s) - 1)) ELSE s

\* str.strip()
Strip(s) == RStrip(LStrip(s))

\* index of the first "_" of s, 0 when there is none
FirstUnderscore(s) ==
    IF \E i \in 1..Len(s) : s[i] = "_"
    THEN CHOOSE i \in 1..Len(s) : s[i] = "_" /\ \A j \in 1..(i - 1) : s[j] # "_"
    ELSE 0

\* SQL: hay LIKE '%' || pat || '%'.  ColumnOperators.contains() does not
\* escape pat, so an underscore of pat matches any one character.
LikeContains(hay, pat) ==
    \E i \in 0..(Len(hay) - Len(pat)) :
        \A j \in 1..Len(pat) : pat[j] = "_" \/ pat[j] = hay[i + j]

\* SQL: hay ILIKE '%' || pat || '%'
ILikeContains(hay, pat) == LikeContains(Lower(hay), Lower(pat))

\* ------------------------------------------------------------- directories
\* users table (read only for the pipeline): id, organization_name, email,
\* whether a subscription tier is joined and its monthly_cost
Users ==
    { [id |-> 1, organization_name |-> <<"A", "c", "m", "e">>,
       email |-> <<"b", "o", "b", "@", "a", "c", "m", "e", ".", "i", "o">>,
       has_tier |-> TRUE, monthly_cost |-> 20000000],
      [id |-> 2, organization_name |-> <<"B", "e", "t", "a", " ", "C", "o">>,
       email |-> <<"a", "m", "y", "@", "b", "e", "t", "a", ".", "i", "o">>,
       has_tier |-> FALSE, monthly_cost |-> 0] }

UserIds == {u.id : u \in Users}

\* ai_models table (read only for the pipeline); prices per 1k tokens and per
\* request in micro-dollars
AIModels ==
    { [id |-> 1, name |-> <<"A", "c", "m", "e", " ", "S", "A">>,
       model_identifier |-> <<"a", "c", "m", "e", "_", "s", "a">>,
       input_cost_per_1k_tokens |-> 2000, output_cost_per_1k_tokens |-> 4000,
       request_cost |-> 0, cost_calculation_type |-> "tokens"],
      [id |-> 2, name |-> <<"E", "m", "a", "i", "l", " ", "C", "l", "s">>,
       model_identifier |-> <<"e", "c", "_", "v", "1">>,
       input_cost_per_1k_tokens |-> 0, output_cost_per_1k_tokens |-> 0,
       request_cost |-> 10000, cost_calculation_type |-> "request"],
      [id |-> 3, name |-> <<"A", "c", "m", "e", " ", "C", "E">>,
       model_identifier |-> <<"a", "c", "m", "e", "_", "c", "e">>,
       input_cost_per_1k_tokens |-> 2000, output_cost_per_1k_tokens |-> 4000,
       request_cost |-> 50000, cost_calculation_type |-> "request"] }

ModelIds == {m.id : m \in AIModels}

\* raw model tags the clients send
TagAcmeSa == <<"a", "c", "m", "e", "_", "s", "a">>
TagOmniSa == <<"o", "m", "n", "i", "_", "s", "a">>
TagAcmeXx == <<"a", "c", "m", "e", "_", "x", "x">>
TagAcmeEmailCls == <<"a", "c", "m", "e", "_", "e", "m", "a", "i", "l", "_", "c", "l", "s">>
TagAcmeCe == <<"a", "c", "m", "e", "_", "c", "e">>
TagOmniAcme == <<"o", "m", "n", "i", "_", "a", "c", "m", "e">>
TagESa == <<"e", "_", "s", "a">>

\* result of Result.scalar_one_or_none() over the ids a query selects:
\* the id, 0 for None, MultipleRows when the call raises MultipleResultsFound
MultipleRows == 0 - 1

scalar_one_or_none(ids) ==
    IF ids = {} THEN 0
    ELSE IF Cardinality(ids) = 1 THEN CHOOSE i \in ids : TRUE
    ELSE MultipleRows

\* ---------------------------------------------------------------- resolver
\* func.literal(x) in the partial-match query: taken as the bound value x, as
\* the query's comment ("or vice versa") describes it
literal(x) == x

\* BillingProcessor.find_user_by_company: the user id, 0 for None,
\* MultipleRows when a strategy's scalar_one_or_none() raises
find_user_by_company(company_name) ==
    IF company_name = NoText THEN 0
    ELSE
      LET company_lower == Strip(Lower(company_name))
          exact == scalar_one_or_none(
              {u.id : u \in {x \in Users :
                  Lower(x.organization_name) = company_lower}})
          partial == scalar_one_or_none(
              {u.id : u \in {x \in Users :
                  \/ LikeContains(Lower(x.organization_name), company_lower)
                  \/ LikeContains(literal(company_lower),
                                  Lower(x.organization_name))}})
          email_domain == <<"@">> \o company_lower
          by_email == scalar_one_or_none(
              {u.id : u \in {x \in Users :
                  LikeContains(Lower(x.email), email_domain)}})
      IN  IF exact # 0 THEN exact
          ELSE IF partial # 0 THEN partial
          ELSE by_email

\* BillingProcessor.find_model_by_name: the model id, 0 for None,
\* MultipleRows when a strategy's scalar_one_or_none() raises
find_model_by_name(model_name) ==
    IF model_name = NoText THEN 0
    ELSE
      LET model_lower == Strip(Lower(model_name))
          by_identifier == scalar_one_or_none(
              {m.id : m \in {x \in AIModels :
                  Lower(x.model_identifier) = model_lower}})
          by_name == scalar_one_or_none(
              {m.id : m \in {x \in AIModels : Lower(x.name) = model_lower}})
          partial == scalar_one_or_none(
              {m.id : m \in {x \in AIModels :
                  \/ LikeContains(Lower(x.name), model_lower)
                  \/ LikeContains(Lower(x.model_identifier), model_lower)}})
          us == FirstUnderscore(model_name)
          model_type == Lower(SubSeq(model_name, us + 1, Len(model_name)))
          by_type == scalar_one_or_none(
              {m.id : m \in {x \in AIModels :
                  \/ LikeContains(Lower(x.name), model_type)
                  \/ LikeContains(Lower(x.model_identifier), model_type)}})
      IN  IF by_identifier # 0 THEN by_identifier
          ELSE IF by_name # 0 THEN by_name
          ELSE IF partial # 0 THEN partial
          ELSE IF us # 0 THEN by_type
          ELSE 0

\* the user query of process_billing_entry_async:
\* User.organization_name.ilike('%company_name%')
async_find_user(company_name) ==
    scalar_one_or_none(
        {u.id : u \in {x \in Users :
            ILikeContains(x.organization_name, company_name)}})

\* the model query of process_billing_entry_async:
\* AIModel.name.ilike('%raw_model_name%')
async_find_model(raw_model_name) ==
    scalar_one_or_none(
        {m.id : m \in {x \in AIModels : ILikeContains(x.name, raw_model_name)}})

ModelRow(id) == CHOOSE m \in AIModels : m.id = id
UserRow(id) == CHOOSE u \in Users : u.id = id

\* APIUsageLog.extract_company_name: parts[0].lower().strip() when the tag
\* has at least two underscore-separated parts, else no company (None)
extract_company_name(raw_model_name) ==
    LET us == FirstUnderscore(raw_model_name)
    IN  IF raw_model_name # NoText /\ us # 0
        THEN Strip(Lower(SubSeq(raw_model_name, 1, us - 1)))
        ELSE NoText

\* the rows the clients can have sent: tag, token count, status
RawKinds ==
    { <<TagAcmeSa, 1500, "success">>, <<TagOmniSa, 1500, "error">>,
      <<TagAcmeXx, 0, "success">>, <<TagAcmeEmailCls, 1500, "success">>,
      <<TagAcmeCe, 1500, "success">> }

\* rows whose tag a resolver query matches against more than one row: the
\* rest "acme" is within the names of models 1 and 3, the company "e" is
\* within the organisation names of both users
AmbiguousKinds ==
    { <<TagOmniAcme, 1500, "success">>, <<TagESa, 1500, "success">> }

\* a row without tokens on a model priced per 1k tokens only (model 1 has no
\* price per request): no price of the model applies to it
UnpricedKinds == { <<TagAcmeSa, 0, "success">> }

\* the texts the resolvers are called with, and their answers (the users and
\* ai_models tables do not change, so each query is evaluated once)
ModelTags == {k[1] : k \in RawKinds \cup AmbiguousKinds}
CompanyTags == {extract_company_name(t) : t \in ModelTags} \ {NoText}

UserFound == [c \in CompanyTags |-> find_user_by_company(c)]
ModelFound == [t \in ModelTags |-> find_model_by_name(t)]
AsyncUserFound == [c \in CompanyTags |-> async_find_user(c)]
AsyncModelFound == [t \in ModelTags |-> async_find_model(t)]

\* --------------------------------------------------------- api_usage_logs
Statuses == {"success", "error"}
ErrorMessages ==
    {"NULL", "no_user", "no_model", "MultipleResultsFound", "TypeError"}

\* a row holding a client's raw data (tag, token count, status), the
\* pipeline's columns at their column defaults
RawRow(id, tag, tokens, status, created) ==
    [id |-> id, user_id |-> 0, model_id |-> 0,
     raw_model_name |-> tag, company_name |-> extract_company_name(tag),
     total_tokens |-> tokens, original_cost |-> 0, applied_discount |-> 0,
     total_cost |-> 0, response_time_ms |-> 150, status |-> status,
     billing_processed |-> FALSE, error_message |-> "NULL", retry_count |-> 0,
     created_at |-> created, processed_at |-> NoTime]

\* APIUsageLog.mark_as_processed
mark_as_processed(r, user_id, model_id, now_) ==
    [r EXCEPT !.user_id = IF user_id # 0 THEN user_id ELSE @,
              !.model_id = IF model_id # 0 THEN model_id ELSE @,
              !.billing_processed = TRUE,
              !.processed_at = now_]

\* BillingProcessor.calculate_model_cost.  The row's applied_discount is a
\* Decimal (Numeric column), so a base cost that is a Python float (request
\* pricing, the 0.01 fallbacks, the 0.0001 default token price) makes
\* line 160 raise TypeError, which the function's own except turns into the
\* float 0.01; only the token branch, Decimal all the way, returns its result.
\* is_float tells the caller which kind of number it got (model_id 0 = None).
calculate_model_cost(log_entry, model_id) ==
    LET m == ModelRow(model_id)
        token_based ==
            /\ model_id # 0
            /\ log_entry.total_tokens # 0
            /\ m.input_cost_per_1k_tokens # 0
        base_cost ==
            (log_entry.total_tokens * m.input_cost_per_1k_tokens) \div 1000
        final_cost ==
            base_cost - ((base_cost * log_entry.applied_discount) \div 100)
    IN  IF token_based
        THEN [cost |-> IF final_cost > 0 THEN final_cost ELSE 0,
              is_float |-> FALSE]
        ELSE [cost |-> DefaultRequestPrice, is_float |-> TRUE]

\* the except branch of both reconciliation functions: what the handler
\* leaves on the loaded object before its commit
\* (retry_count += 1; every value from MaxRetryCount on is held as
\* MaxRetryCount: the code compares retry_count with MaxRetries only)
error_handler(r, e) ==
    [r EXCEPT !.error_message = e,
              !.retry_count = IF @ < MaxRetryCount THEN @ + 1 ELSE @]

\* BillingProcessor.process_billing_entry on the loaded row r at time now_:
\* the state of the object at the commit that ends the attempt
process_billing_entry(r, now_) ==
    LET user == IF r.company_name # NoText
                THEN UserFound[r.company_name] ELSE 0
        r1 == IF r.company_name = NoText THEN r
              ELSE IF user # 0 THEN [r EXCEPT !.user_id = user]
              ELSE [r EXCEPT !.error_message = "no_user"]
        ai_model == IF r.raw_model_name # NoText
                    THEN ModelFound[r.raw_model_name] ELSE 0
        new_cost == calculate_model_cost(r1, ai_model)
        rated == [r1 EXCEPT !.model_id = ai_model,
                            !.original_cost = new_cost.cost]
        r2 == IF r.raw_model_name = NoText THEN r1
              ELSE IF ai_model # 0
              THEN [rated EXCEPT !.total_cost =
                       (new_cost.cost * (100 - r1.applied_discount)) \div 100]
              ELSE [r1 EXCEPT !.error_message = "no_model"]
    IN  IF user = MultipleRows
        THEN error_handler(r, "MultipleResultsFound")
        ELSE IF ai_model = MultipleRows
        THEN error_handler(r1, "MultipleResultsFound")
        ELSE IF ai_model # 0 /\ new_cost.is_float
        THEN error_handler(rated, "TypeError")   \* line 227: float * Decimal
        ELSE mark_as_processed(r2, r2.user_id, r2.model_id, now_)

\* APIUsageLog.calculate_cost(model_pricing) as process_billing_entry_async
\* calls it: the object after the assignments made before line 82/83 raises.
\* original_cost is a float after either branch (float * Decimal at line 82)
\* and a Decimal otherwise (Decimal - float at line 83): the call always
\* raises TypeError on a row read from the table.
calculate_cost_priced(r, cost_per_1k_tokens, cost_per_request) ==
    IF r.total_tokens # 0 /\ cost_per_1k_tokens # 0
    THEN [r EXCEPT !.original_cost =
             (r.total_tokens * cost_per_1k_tokens) \div 1000]
    ELSE IF r.response_time_ms # 0 /\ cost_per_request # 0
    THEN [r EXCEPT !.original_cost = cost_per_request]
    ELSE r

\* process_billing_entry_async on the loaded row r at time now_: the state of
\* the object at the commit that ends the attempt
process_billing_entry_async(r, now_) ==
    LET user == IF r.company_name # NoText
                THEN AsyncUserFound[r.company_name] ELSE 0
        r1 == IF r.company_name = NoText THEN r
              ELSE IF user # 0 THEN [r EXCEPT !.user_id = user]
              ELSE [r EXCEPT !.error_message = "no_user"]
        ai_model == AsyncModelFound[r.raw_model_name]
        m == ModelRow(ai_model)
        r2 == [r1 EXCEPT !.error_message = "no_model"]
    IN  IF user = MultipleRows
        THEN error_handler(r, "MultipleResultsFound")
        ELSE IF ai_model = MultipleRows
        THEN error_handler(r1, "MultipleResultsFound")
        ELSE IF ai_model # 0
        THEN error_handler(
                 calculate_cost_priced([r1 EXCEPT !.model_id = ai_model],
                     m.input_cost_per_1k_tokens, m.request_cost),
                 "TypeError")
        ELSE mark_as_processed(r2, r2.user_id, r2.model_id, now_)

\* a commit whose UPDATE carries every column of the object
commit_every_column(stored, loaded, obj) == obj

\* Session.commit(): the UPDATE carries the columns whose value on the object
\* differs from the value loaded; the other columns keep what the table holds
commit(stored, loaded, obj) ==
    [f \in DOMAIN stored |-> IF obj[f] # loaded[f] THEN obj[f] ELSE stored[f]]

\* ------------------------------------------------------------------- state
VARIABLES
    logs,       \* api_usage_logs: sequence of rows, logs[i].id = i
    now,        \* the clock, in ticks
    pc,         \* position of each worker
    queue,      \* ids a sweep or the startup pass has selected and not yet tried
    attempt,    \* the row each worker loaded for the attempt it is in, or NoRow
    invoices,   \* monthly_billing_summary: sequence of rows
    responses,  \* what POST /billing answered, one entry per request
    lookup      \* the resolver call under way: function, argument, answer

vars == <<logs, now, pc, queue, attempt, invoices, responses, lookup>>

\* workers: the background task of the request that persisted row i is worker
\* i; the sweep loop and the startup pass follow
Tasks == 1..NumLogs
Sweeper == NumLogs + 1
Startup == NumLogs + 2
Workers == Tasks \cup {Sweeper, Startup}

NoRow == RawRow(0, NoText, 0, "success", 0)

LogIds == 1..Len(logs)

\* no resolver call is under way
NoLookup == [fn |-> "none", arg |-> NoText, returned |-> FALSE, result |-> 0]

\* ids of S ordered by created_at ascending (rows of one tick in the order of
\* their insertion, which is the order of their ids)
RECURSIVE OrderByCreatedAt(_)
OrderByCreatedAt(S) ==
    IF S = {} THEN << >>
    ELSE LET first == CHOOSE i \in S : \A j \in S :
                 \/ logs[i].created_at < logs[j].created_at
                 \/ logs[i].created_at = logs[j].created_at /\ i <= j
         IN  <<first>> \o OrderByCreatedAt(S \ {first})

Limit(seq, n) == SubSeq(seq, 1, IF Len(seq) < n THEN Len(seq) ELSE n)

\* BillingProcessor.get_unprocessed_entries(limit)
get_unprocessed_entries(limit) ==
    Limit(OrderByCreatedAt({i \in LogIds : ~logs[i].billing_processed}), limit)

\* the query of BillingProcessor.reprocess_failed_entries(max_retries)
failed_entries(max_retries) ==
    Limit(OrderByCreatedAt({i \in LogIds :
              /\ ~logs[i].billing_processed
              /\ logs[i].error_message # "NULL"
              /\ logs[i].retry_count < max_retries}),
          FailedBatchLimit)

\* ----------------------------------------------------------- discount rules
\* discount_rules table (read only for the pipeline); max_requests NoMax is
\* NULL, user_id and model_id 0 are NULL (a rule for every user, for every
\* model), valid_until NoTime is NULL; discount_percentage is a
\* Numeric(5, 2) the admin route accepts unchecked
NoMax == 0 - 1

DiscountRules ==
    { [id |-> 1, priority |-> 100, user_id |-> 1, model_id |-> 1,
       min_requests |-> 0, max_requests |-> NoMax,
       discount_percentage |-> 10, is_active |-> TRUE,
       valid_from |-> 0, valid_until |-> NoTime],
      [id |-> 2, priority |-> 100, user_id |-> 1, model_id |-> 2,
       min_requests |-> 0, max_requests |-> NoMax,
       discount_percentage |-> 150, is_active |-> TRUE,
       valid_from |-> 0, valid_until |-> NoTime],
      [id |-> 3, priority |-> 100, user_id |-> 1, model_id |-> 1,
       min_requests |-> 0, max_requests |-> NoMax,
       discount_percentage |-> 20, is_active |-> TRUE,
       valid_from |-> 0, valid_until |-> NoTime],
      [id |-> 4, priority |-> 100, user_id |-> 2, model_id |-> 1,
       min_requests |-> 0, max_requests |-> NoMax,
       discount_percentage |-> 30, is_active |-> TRUE,
       valid_from |-> 0, valid_until |-> 0],
      [id |-> 5, priority |-> 200, user_id |-> 0, model_id |-> 0,
       min_requests |-> 0, max_requests |-> NoMax,
       discount_percentage |-> 5, is_active |-> TRUE,
       valid_from |-> 0, valid_until |-> NoTime],
      [id |-> 6, priority |-> 50, user_id |-> 1, model_id |-> 3,
       min_requests |-> 0, max_requests |-> NoMax,
       discount_percentage |-> 40, is_active |-> FALSE,
       valid_from |-> 0, valid_until |-> NoTime] }

\* the requests log_api_usage can receive
DirectInputs ==
    [user_id : UserIds, model_id : ModelIds, status : Statuses,
     response_time_ms : {150}, input_tokens : {1000}, output_tokens : {500}]

RECURSIVE SumOver(_, _)
SumOver(S, field) ==
    IF S = {} THEN 0
    ELSE LET i == CHOOSE x \in S : TRUE
         IN  logs[i][field] + SumOver(S \ {i}, field)

\* log_api_usage, lines 32-41: the undiscounted cost
direct_original_cost(data, model) ==
    IF data.status = "success"
    THEN IF model.cost_calculation_type = "tokens"
         THEN (data.input_tokens * model.input_cost_per_1k_tokens) \div 1000
              + (data.output_tokens * model.output_cost_per_1k_tokens) \div 1000
         ELSE model.request_cost
    ELSE 0

\* log_api_usage, lines 43-48: the user's rows since the start of this month
request_count(user_id) ==
    Cardinality({i \in LogIds :
        logs[i].user_id = user_id /\ logs[i].created_at >= now})

\* log_api_usage, lines 50-61: the rules the query selects for the user, the
\* model and the request count
applicable_rules(user_id, model_id, count) ==
    {d \in DiscountRules :
        /\ d.is_active
        /\ d.user_id = user_id
        /\ d.model_id = model_id
        /\ d.min_requests <= count
        /\ (d.max_requests = NoMax \/ d.max_requests >= count)}

\* .order_by(DiscountRule.priority) ... .first(): a rule of lowest priority
\* value (the store orders rules of equal priority as it likes)
first_by_priority(rules) ==
    {d \in rules : \A e \in rules : d.priority <= e.priority}

\* generate_monthly_bills, lines 16-61: the row built for user u and the
\* target month (the month before now)
bill_row(u, target, id) ==
    LET rows == {i \in LogIds :
                    logs[i].user_id = u.id /\ logs[i].created_at = target}
        original_usage_cost == SumOver(rows, "original_cost")
        usage_cost == SumOver(rows, "total_cost")
        subscription_cost == IF u.has_tier THEN u.monthly_cost ELSE 0
    IN  [id |-> id, user_id |-> u.id, period |-> target,
         total_requests |-> Cardinality(rows),
         total_tokens |-> SumOver(rows, "total_tokens"),
         usage_cost |-> usage_cost,
         subscription_cost |-> subscription_cost,
         total_discount |-> original_usage_cost - usage_cost,
         total_cost |-> usage_cost + subscription_cost,
         is_paid |-> FALSE, paid_at |-> NoTime,
         payment_due_date |-> [tick |-> now, plus_days |-> GraceDays]]

\* generate_monthly_bills, line 46: usage_cost is a Decimal unless the sum is
\* zero or NULL ("or 0"), subscription_cost is a float when the user has a
\* tier; Decimal + float raises TypeError
bill_raises(u, target) ==
    /\ u.has_tier
    /\ SumOver({i \in LogIds :
           logs[i].user_id = u.id /\ logs[i].created_at = target},
               "total_cost") # 0

\* users in the order the run visits them
RECURSIVE OrderById(_)
OrderById(S) ==
    IF S = {} THEN << >>
    ELSE LET u == CHOOSE x \in S : \A y \in S : x.id <= y.id
         IN  <<u>> \o OrderById(S \ {u})

Init ==
    /\ \E kinds \in [1..NumLogs -> RawKinds] :
           logs = [i \in 1..NumLogs |->
                      RawRow(i, kinds[i][1], kinds[i][2], kinds[i][3], 0)]
    /\ now = 0
    \* the rows were persisted either before this run of the application (the
    \* startup pass finds them and no background task exists for them) or by
    \* requests of this run, served once startup is over (each with the
    \* background task its request scheduled)
    /\ \E before_startup \in BOOLEAN :
           pc = [w \in Workers |->
                    IF w \in Tasks
                    THEN (IF before_startup THEN "none" ELSE "scheduled")
                    ELSE IF w = Sweeper THEN "sleep"
                    ELSE (IF before_startup THEN "start" ELSE "done")]
    /\ queue = [w \in {Sweeper, Startup} |-> << >>]
    /\ attempt = [w \in Workers |-> NoRow]
    /\ invoices = << >>
    /\ responses = << >>
    /\ lookup = NoLookup

\* ----------------------------------------------------------------- actions
\* the clock advances
Tick ==
    /\ now < MaxTime
    /\ now' = now + 1
    /\ UNCHANGED <<logs, pc, queue, attempt, invoices, responses, lookup>>

\* process_billing_entry_async(log_id), lines 221-226: the background task of
\* row i reads the row in a session of its own
TaskLoad(i) ==
    /\ pc[i] = "scheduled"
    /\ attempt' = [attempt EXCEPT ![i] = logs[i]]
    /\ pc' = [pc EXCEPT ![i] = "loaded"]
    /\ UNCHANGED <<logs, now, queue, invoices, responses, lookup>>

\* process_billing_entry_async(log_id), lines 232-279: resolution, rating and
\* the commit (of the try block or of the except block)
TaskFinish(i) ==
    /\ pc[i] = "loaded"
    /\ \E obj \in {process_billing_entry_async(attempt[i], now)} :
           logs' = [logs EXCEPT ![i] = commit(logs[i], attempt[i], obj)]
    /\ attempt' = [attempt EXCEPT ![i] = NoRow]
    /\ pc' = [pc EXCEPT ![i] = "done"]
    /\ UNCHANGED <<now, queue, invoices, responses, lookup>>

\* background_billing_processor, lines 122-128: an iteration of the loop
\* begins (the first one, or the next one once the sweeps of the previous
\* iteration are over); after the sleep the default sweep selects its batch
SweepSelect ==
    /\ queue[Sweeper] = << >>
    /\ attempt[Sweeper] = NoRow
    /\ queue' = [queue EXCEPT ![Sweeper] = get_unprocessed_entries(BatchLimit)]
    /\ pc' = [pc EXCEPT ![Sweeper] = "default"]
    /\ UNCHANGED <<logs, now, attempt, invoices, responses, lookup>>

\* BillingProcessor.process_billing_entry(entry.id), lines 175-180: worker w
\* (sweep loop or startup pass) reads the next selected row in a new session
Load(w) ==
    /\ pc[w] \in {"default", "failed", "startup"}
    /\ queue[w] # << >>
    /\ attempt[w] = NoRow
    /\ attempt' = [attempt EXCEPT ![w] = logs[Head(queue[w])]]
    /\ UNCHANGED <<logs, now, pc, queue, invoices, responses, lookup>>

\* an attempt whose exception ends the batch it belongs to: the ids still
\* selected are dropped
Finish_raising(w) ==
    /\ attempt[w] # NoRow
    /\ \E obj \in {process_billing_entry(attempt[w], now)} :
           /\ logs' = [logs EXCEPT ![obj.id] =
                          commit(logs[obj.id], attempt[w], obj)]
           /\ queue' = [queue EXCEPT ![w] =
                           IF obj.billing_processed THEN Tail(@) ELSE << >>]
    /\ attempt' = [attempt EXCEPT ![w] = NoRow]
    /\ UNCHANGED <<now, pc, invoices, responses, lookup>>

\* an attempt that stores the user it resolved on every row of the same
\* company, not on its own row only
Finish_company(w) ==
    /\ attempt[w] # NoRow
    /\ \E obj \in {process_billing_entry(attempt[w], now)} :
           logs' = [i \in LogIds |->
                       IF i = obj.id THEN commit(logs[i], attempt[w], obj)
                       ELSE IF logs[i].company_name = obj.company_name
                       THEN [logs[i] EXCEPT !.user_id = obj.user_id]
                       ELSE logs[i]]
    /\ attempt' = [attempt EXCEPT ![w] = NoRow]
    /\ queue' = [queue EXCEPT ![w] = Tail(@)]
    /\ UNCHANGED <<now, pc, invoices, responses, lookup>>

\* BillingProcessor.process_billing_entry(entry.id), lines 198-266: resolution,
\* rating and the commit (of the try block or of the except block)
Finish(w) ==
    /\ attempt[w] # NoRow
    /\ \E obj \in {process_billing_entry(attempt[w], now)} :
           logs' = [logs EXCEPT ![obj.id] =
                       commit(logs[obj.id], attempt[w], obj)]
    /\ attempt' = [attempt EXCEPT ![w] = NoRow]
    /\ queue' = [queue EXCEPT ![w] = Tail(@)]
    /\ UNCHANGED <<now, pc, invoices, responses, lookup>>

\* background_billing_processor, lines 140-142, and the query of
\* reprocess_failed_entries: the loop time falls in the 5-minute window and
\* the failed-entries sweep selects its batch
SweepFailedSelect ==
    /\ pc[Sweeper] = "default"
    /\ queue[Sweeper] = << >>
    /\ attempt[Sweeper] = NoRow
    /\ queue' = [queue EXCEPT ![Sweeper] = failed_entries(MaxRetries)]
    /\ pc' = [pc EXCEPT ![Sweeper] = "failed"]
    /\ UNCHANGED <<logs, now, attempt, invoices, responses, lookup>>

\* startup_billing_processing, lines 162-166: the first StartupSlice of the
\* unprocessed rows are selected
StartupSelect ==
    /\ pc[Startup] = "start"
    /\ queue' = [queue EXCEPT ![Startup] =
           Limit(get_unprocessed_entries(StartupLimit), StartupSlice)]
    /\ pc' = [pc EXCEPT ![Startup] = "startup"]
    /\ UNCHANGED <<logs, now, attempt, invoices, responses, lookup>>

\* startup_billing_processing: the pass is over
StartupDone ==
    /\ pc[Startup] = "startup"
    /\ queue[Startup] = << >>
    /\ attempt[Startup] = NoRow
    /\ pc' = [pc EXCEPT ![Startup] = "done"]
    /\ UNCHANGED <<logs, now, queue, attempt, invoices, responses, lookup>>

\* log_api_usage: a usage row is rated and inserted directly, with the
\* discount of a selected rule (404 when the model does not exist: no change).
\* The row carries no raw_model_name and no company_name; billing_processed
\* takes its column default, so the sweeps select the row like any other.
log_api_usage(data) ==
    /\ Len(logs) < NumLogs + MaxDirect
    /\ data.model_id \in ModelIds
    /\ LET model == ModelRow(data.model_id)
           original_cost == direct_original_cost(data, model)
           candidates == first_by_priority(
               applicable_rules(data.user_id, data.model_id,
                                request_count(data.user_id)))
       IN  \E pct \in IF candidates = {} THEN {0}
                      ELSE {d.discount_percentage : d \in candidates} :
             logs' = Append(logs,
               [id |-> Len(logs) + 1, user_id |-> data.user_id,
                model_id |-> data.model_id,
                raw_model_name |-> NoText, company_name |-> NoText,
                total_tokens |-> data.input_tokens + data.output_tokens,
                original_cost |-> original_cost, applied_discount |-> pct,
                total_cost |-> (original_cost * (100 - pct)) \div 100,
                response_time_ms |-> data.response_time_ms,
                status |-> data.status,
                billing_processed |-> FALSE, error_message |-> "NULL",
                retry_count |-> 0, created_at |-> now,
                processed_at |-> NoTime])
    /\ UNCHANGED <<now, pc, queue, attempt, invoices, responses, lookup>>

\* Python None on an attribute of an object that was constructed and not yet
\* flushed: a column default is applied by the INSERT, not by the constructor
Unset == 0 - 2

\* the requests POST /billing can receive (BillingData)
BillingInputs ==
    {[model_name |-> k[1], total_tokens |-> k[2], status |-> k[3],
      processing_time_ms |-> 150] : k \in RawKinds}

\* APIUsageLog.create_from_billing_data: the constructor sets the attributes
\* it is given, extract_company_name() sets company_name, calculate_cost()
\* with no pricing sets original_cost (0.0001 $ per token, 0.01 $ without
\* tokens) and then divides applied_discount by 100, which raises TypeError
\* on None
create_from_billing_data(billing_data) ==
    LET log_entry ==
            [raw_model_name |-> billing_data.model_name,
             response_time_ms |-> billing_data.processing_time_ms,
             status |-> billing_data.status,
             total_tokens |-> billing_data.total_tokens,
             company_name |-> extract_company_name(billing_data.model_name),
             original_cost |-> Unset, applied_discount |-> Unset,
             total_cost |-> Unset]
        priced ==
            [log_entry EXCEPT !.original_cost =
                IF log_entry.total_tokens # 0
                THEN log_entry.total_tokens * 100
                ELSE DefaultRequestPrice]
    IN  IF priced.applied_discount = Unset
        THEN [raised |-> TRUE, log_entry |-> priced]
        ELSE [raised |-> FALSE,
              log_entry |-> [priced EXCEPT !.total_cost =
                  priced.original_cost
                      - (priced.original_cost * priced.applied_discount)
                            \div 100]]

\* the worker that runs the background task of a row POST /billing inserted
IngestTask(id) == NumLogs + 2 + id

\* receive_billing_data: the row is built, inserted and its background task
\* scheduled, and the answer is success with processed = False; any
\* exception on the way is answered with HTTP 500 and nothing is inserted
receive_billing_data(billing_data) ==
    /\ Len(responses) < MaxIngest
    /\ LET created == create_from_billing_data(billing_data)
           e == created.log_entry
           id == Len(logs) + 1
       IN  IF created.raised
           THEN /\ responses' = Append(responses,
                       [status_code |-> 500, detail |-> "TypeError"])
                /\ UNCHANGED <<logs, pc, attempt>>
           ELSE /\ logs' = Append(logs,
                       [RawRow(id, e.raw_model_name, e.total_tokens,
                               e.status, now)
                           EXCEPT !.response_time_ms = e.response_time_ms,
                                  !.original_cost = e.original_cost,
                                  !.applied_discount = e.applied_discount,
                                  !.total_cost = e.total_cost])
                /\ pc' = [w \in DOMAIN pc \cup {IngestTask(id)} |->
                             IF w = IngestTask(id) THEN "scheduled"
                             ELSE pc[w]]
                /\ attempt' = [w \in DOMAIN attempt \cup {IngestTask(id)} |->
                                  IF w = IngestTask(id) THEN NoRow
                                  ELSE attempt[w]]
                /\ responses' = Append(responses,
                       [status_code |-> 200, success |-> TRUE, log_id |-> id,
                        processed |-> FALSE])
    /\ UNCHANGED <<now, queue, invoices, lookup>>

\* the requests POST /billing/batch can receive (list[BillingData])
BatchInputs ==
    UNION {[1..n -> BillingInputs] : n \in 0..MaxBatch}

\* receive_batch_billing_data: every event's row is built and added to the
\* session, and log_entry.id is read right after db.add(), before anything
\* is flushed: log_ids holds None for every event.  One commit inserts the
\* rows; the background tasks are scheduled with the values of log_ids, and
\* a task called with None finds no row and returns (lines 226-230), so it
\* changes nothing.  Any exception on the way is answered with HTTP 500 and
\* nothing is inserted.
receive_batch_billing_data(billing_batch) ==
    /\ Len(responses) < MaxIngest
    /\ LET created == [i \in 1..Len(billing_batch) |->
                          create_from_billing_data(billing_batch[i])]
           log_ids == [i \in 1..Len(billing_batch) |-> Unset]
       IN  IF \E i \in 1..Len(billing_batch) : created[i].raised
           THEN /\ responses' = Append(responses,
                       [status_code |-> 500, detail |-> "TypeError"])
                /\ UNCHANGED logs
           ELSE /\ logs' = logs \o
                       [i \in 1..Len(billing_batch) |->
                           [RawRow(Len(logs) + i,
                                   created[i].log_entry.raw_model_name,
                                   created[i].log_entry.total_tokens,
                                   created[i].log_entry.status, now)
                               EXCEPT !.response_time_ms =
                                          created[i].log_entry.response_time_ms,
                                      !.original_cost =
                                          created[i].log_entry.original_cost,
                                      !.applied_discount =
                                          created[i].log_entry.applied_discount,
                                      !.total_cost =
                                          created[i].log_entry.total_cost]]
                /\ responses' = Append(responses,
                       [status_code |-> 200, success |-> TRUE,
                        log_ids |-> log_ids,
                        processed_count |-> Len(log_ids)])
    /\ UNCHANGED <<now, pc, queue, attempt, invoices, lookup>>

\* stripe_webhook, lines 52-62 (checkout.session.completed): the bill named in
\* the session's metadata is marked paid, unless it is missing or paid
stripe_webhook(bill_id) ==
    /\ bill_id \in 1..Len(invoices)
    /\ ~invoices[bill_id].is_paid
    /\ invoices' = [invoices EXCEPT ![bill_id].is_paid = TRUE,
                                    ![bill_id].paid_at = now]
    /\ UNCHANGED <<logs, now, pc, queue, attempt, responses, lookup>>

\* a bill run that keeps one row per user and month: where the user has a
\* row for the target month the run rewrites it, otherwise it inserts one
generate_monthly_bills_upsert ==
    /\ Len(invoices) < MaxBillRuns * Cardinality(Users)
    /\ LET target == now - 1
           billed == {invoices[k].user_id : k \in
                         {j \in 1..Len(invoices) : invoices[j].period = target}}
           fresh == OrderById({u \in Users : u.id \notin billed})
       IN  IF \E u \in Users : bill_raises(u, target)
           THEN invoices' = invoices
           ELSE invoices' =
                    [k \in 1..Len(invoices) |->
                        IF invoices[k].period = target
                        THEN bill_row(UserRow(invoices[k].user_id), target, k)
                        ELSE invoices[k]]
                    \o [k \in 1..Len(fresh) |->
                           bill_row(fresh[k], target, Len(invoices) + k)]
    /\ UNCHANGED <<logs, now, pc, queue, attempt, responses, lookup>>

\* generate_monthly_bills: one row per user for the month before now, all
\* committed at the end; an exception in the loop leaves the table as it was
generate_monthly_bills ==
    /\ Len(invoices) < MaxBillRuns * Cardinality(Users)
    /\ LET target == now - 1
           users == OrderById(Users)
       IN  IF \E u \in Users : bill_raises(u, target)
           THEN invoices' = invoices
           ELSE invoices' = invoices \o
                    [k \in 1..Len(users) |->
                        bill_row(users[k], target, Len(invoices) + k)]
    /\ UNCHANGED <<logs, now, pc, queue, attempt, responses, lookup>>

\* the reconciliation pipeline: background tasks, both sweeps, startup pass
\* (within one tick of the clock)
Next ==
    \/ \E i \in Tasks : TaskLoad(i)
    \/ \E i \in Tasks : TaskFinish(i)
    \/ SweepSelect
    \/ \E w \in {Sweeper, Startup} : Load(w)
    \/ \E w \in {Sweeper, Startup} : Finish(w)
    \/ SweepFailedSelect
    \/ StartupSelect
    \/ StartupDone

Spec == Init /\ [][Next]_vars

\* the reconciliation pipeline over rows with ambiguous tags and rows no
\* price applies to, next to rows that resolve to one user and one model
\* with a price
InitCorner ==
    /\ \E kinds \in [1..NumLogs ->
                        AmbiguousKinds \cup UnpricedKinds
                            \cup {<<TagAcmeSa, 1500, "success">>}] :
           logs = [i \in 1..NumLogs |->
                      RawRow(i, kinds[i][1], kinds[i][2], kinds[i][3], 0)]
    /\ now = 0
    /\ \E before_startup \in BOOLEAN :
           pc = [w \in Workers |->
                    IF w \in Tasks
                    THEN (IF before_startup THEN "none" ELSE "scheduled")
                    ELSE IF w = Sweeper THEN "sleep"
                    ELSE (IF before_startup THEN "start" ELSE "done")]
    /\ queue = [w \in {Sweeper, Startup} |-> << >>]
    /\ attempt = [w \in Workers |-> NoRow]
    /\ invoices = << >>
    /\ responses = << >>
    /\ lookup = NoLookup

CornerSpec == InitCorner /\ [][Next]_vars

\* both entry paths and the monthly bills over the months: the clock, direct
\* logging, the sweep loop that marks the rows processed, bill generation
NextBilling ==
    \/ Tick
    \/ \E data \in DirectInputs : log_api_usage(data)
    \/ SweepSelect
    \/ Load(Sweeper)
    \/ Finish(Sweeper)
    \/ SweepFailedSelect
    \/ generate_monthly_bills

BillingSpec == Init /\ [][NextBilling]_vars

\* an application started over rows an earlier run left behind: the rows have
\* no background task any more
InitRestarted == Init /\ \A i \in Tasks : pc[i] = "none"

\* the life of the monthly bills: the clock, direct logging that gives users
\* usage (a bill reads the user, the tokens and the costs of a row: requests
\* on model 1 give either user rows with a cost and rows without), bill
\* generation, payments reported by the payment provider
NextInvoice ==
    \/ Tick
    \/ \E data \in {d \in DirectInputs : d.model_id = 1} : log_api_usage(data)
    \/ generate_monthly_bills
    \/ \E bill_id \in 1..(MaxBillRuns * Cardinality(Users)) :
           stripe_webhook(bill_id)

\* the ingested rows stay unreconciled throughout (no worker runs here), so
\* they have no user and enter no bill whatever their tag: one tag stands for
\* all, and no background task is left
InitInvoice ==
    /\ InitRestarted
    /\ \A i \in 1..NumLogs : logs[i].raw_model_name = TagOmniSa

InvoiceSpec == InitInvoice /\ [][NextInvoice]_vars

\* ingestion next to the reconciliation its rows go through: requests to
\* POST /billing, the background tasks, the default sweep
NextIngest ==
    \/ \E billing_data \in BillingInputs : receive_billing_data(billing_data)
    \/ \E i \in Tasks : TaskLoad(i)
    \/ \E i \in Tasks : TaskFinish(i)
    \/ SweepSelect
    \/ Load(Sweeper)
    \/ Finish(Sweeper)

IngestSpec == Init /\ [][NextIngest]_vars

\* batch ingestion next to the background tasks of the rows there are
NextBatch ==
    \/ \E billing_batch \in BatchInputs :
           receive_batch_billing_data(billing_batch)
    \/ \E i \in Tasks : TaskLoad(i)
    \/ \E i \in Tasks : TaskFinish(i)

BatchSpec == Init /\ [][NextBatch]_vars

\* the workers of a restarted application: the startup pass and the sweep
\* loop work on the rows, direct logging adds rows (within one tick of the
\* clock)
SweepStep == SweepSelect \/ Load(Sweeper) \/ Finish(Sweeper)

StartupStep ==
    StartupSelect \/ Load(Startup) \/ Finish(Startup) \/ StartupDone

\* (a directly logged row carries no tag: an attempt on it resolves nothing
\* and rates nothing, whatever its user and model, so the requests of one
\* user on one model stand for all)
NextFair ==
    \/ \E data \in {d \in DirectInputs : d.user_id = 1 /\ d.model_id = 1} :
           log_api_usage(data)
    \/ SweepStep
    \/ SweepFailedSelect
    \/ StartupStep

\* the scheduling the code gives its workers: the event loop runs every step
\* of the startup pass; the sweep loop is a "while True" that sleeps 30 s per
\* iteration, and an iteration falls in the 30 s window of the failed-entries
\* sweep (time % 300 < 30) again and again
Fairness ==
    /\ WF_vars(StartupStep)
    /\ WF_vars(SweepStep)
    /\ SF_vars(SweepFailedSelect)

FairSpec == InitRestarted /\ [][NextFair]_vars /\ Fairness

\* ---------------------------------------------------------- resolver calls
\* texts a resolver can be called with: a core, with or without a text
\* before and after it
Affixed(pres, cores, posts) ==
    {pre \o core \o post : pre \in pres, core \in cores, post \in posts}

\* company names: the organisation names in several spellings, parts of
\* them, the email domains, an unknown company, the empty text
CompanyInputs ==
    Affixed({<< >>, <<" ">>},
            { <<"a", "c", "m", "e">>, <<"A", "c", "m", "E">>,
              <<"a", "c", "m">>, <<"b", "e", "t", "a", " ", "c", "o">>,
              <<"B", "E", "t", "a">>, <<"c", "o">>, <<"e">>,
              <<"o", "m", "n", "i">>,
              <<"a", "c", "m", "e", ".", "i", "o">>,
              <<"b", "e", "t", "a", ".", "i", "o">>, << >> },
            {<< >>, <<" ">>, <<"x">>})

\* model tags: identifiers, names and parts of them, bare or behind a
\* company prefix, with or without a suffix
ModelInputs ==
    Affixed({<< >>, <<"o", "m", "n", "i", "_">>, <<"a", "c", "m", "e", "_">>},
            { <<"s", "a">>, <<"S", "A">>, <<"e", "c", "_", "v", "1">>,
              <<"e", "m", "a", "i", "l", "_", "c", "l", "s">>,
              <<"E", "m", "a", "i", "l", " ", "C", "l", "s">>,
              <<"a", "c", "m", "e">>, <<"a", "c", "m", "e", " ", "s", "a">>,
              <<"c", "l", "s">>, <<"c", "e">>, <<"x", "x">>, << >> },
            {<< >>, <<"_", "b">>})

\* a caller is about to call one of the two resolvers with one text
ResolverInit ==
    /\ logs = << >>
    /\ now = 0
    /\ pc = [w \in {Sweeper, Startup} |-> "done"]
    /\ queue = [w \in {Sweeper, Startup} |-> << >>]
    /\ attempt = [w \in {Sweeper, Startup} |-> NoRow]
    /\ invoices = << >>
    /\ responses = << >>
    /\ lookup \in
           {[fn |-> "find_user_by_company", arg |-> c, returned |-> FALSE,
             result |-> 0] : c \in CompanyInputs}
           \cup {[fn |-> "find_model_by_name", arg |-> t,
                  returned |-> FALSE, result |-> 0] : t \in ModelInputs}

\* the call of find_user_by_company returns (result MultipleRows: it raises)
ResolveUser ==
    /\ lookup.fn = "find_user_by_company"
    /\ ~lookup.returned
    /\ lookup' = [lookup EXCEPT !.returned = TRUE,
                                !.result = find_user_by_company(lookup.arg)]
    /\ UNCHANGED <<logs, now, pc, queue, attempt, invoices, responses>>

\* the call of find_model_by_name returns (result MultipleRows: it raises)
ResolveModel ==
    /\ lookup.fn = "find_model_by_name"
    /\ ~lookup.returned
    /\ lookup' = [lookup EXCEPT !.returned = TRUE,
                                !.result = find_model_by_name(lookup.arg)]
    /\ UNCHANGED <<logs, now, pc, queue, attempt, invoices, responses>>

NextResolver == ResolveUser \/ ResolveModel

ResolverSpec == ResolverInit /\ [][NextResolver]_vars

\* ------------------------------------------------------------------ claims
\* worker w's step commits the attempt it is in
Commits(w) == attempt[w] # NoRow /\ attempt'[w] = NoRow

\* C1: a reconciliation attempt on a row that was processed when the attempt
\* read it changes nothing of the row: no field is rewritten.
C1_ProcessedRowUntouched ==
    [][\A w \in Workers :
          (Commits(w) /\ attempt[w].billing_processed)
              => logs'[attempt[w].id] = logs[attempt[w].id]]_vars

\* C2: monthly_billing_summary never holds two rows for the same user and
\* the same billing period.
C2_OneInvoicePerUserPeriod ==
    \A i, j \in 1..Len(invoices) :
        (invoices[i].user_id = invoices[j].user_id
            /\ invoices[i].period = invoices[j].period) => i = j

\* C3: at no time are two workers (background task, sweep loop, startup
\* pass) in a reconciliation attempt on the same row.
C3_OneAttemptPerRow ==
    \A v, w \in Workers :
        (attempt[v] # NoRow /\ attempt[w] # NoRow
            /\ attempt[v].id = attempt[w].id) => v = w

\* C4: every processed row has its model set (total_cost is never NULL: the
\* column has a default and every assignment stores a number).
C4_ProcessedHasModel ==
    \A i \in LogIds : logs[i].billing_processed => logs[i].model_id # 0

Exhausted(r) == ~r.billing_processed /\ r.retry_count > MaxRetries

\* C7: once a row has failed an attempt with retry_count at the ceiling, the
\* default sweep does not select it again.
C7_DefaultSweepSkipsExhausted ==
    [][(pc'[Sweeper] = "default" /\ queue'[Sweeper] # queue[Sweeper]
           /\ queue[Sweeper] = << >>)
          => \A k \in 1..Len(queue'[Sweeper]) :
                 ~Exhausted(logs[queue'[Sweeper][k]])]_vars

\* C9: processed is absorbing: no step of a background task, of a sweep or
\* of the startup pass takes a processed row back to unprocessed.
C9_ProcessedIsAbsorbing ==
    [][\A i \in LogIds :
          logs[i].billing_processed => logs'[i].billing_processed]_vars

\* C9's case: a worker is in an attempt on a row it read as unprocessed and
\* that another worker has marked processed since; its commit comes next
C9_Witness ==
    \E w \in Workers :
        /\ attempt[w] # NoRow
        /\ ~attempt[w].billing_processed
        /\ logs[attempt[w].id].billing_processed

Settled(i) ==
    /\ i \in LogIds
    /\ (logs[i].billing_processed \/ logs[i].retry_count >= MaxRetries)

C11_IngestionAlwaysSucceeds ==
    [][Len(responses') > Len(responses) =>
          LET reply == responses'[Len(responses')]
          IN  /\ reply.status_code = 200
              /\ reply.success
              /\ ~reply.processed
              /\ Len(logs') = Len(logs) + 1
              /\ reply.log_id = Len(logs')
              /\ ~logs'[reply.log_id].billing_processed
              /\ logs'[reply.log_id].retry_count = 0
              /\ logs'[reply.log_id].user_id = 0
              /\ logs'[reply.log_id].model_id = 0]_vars

\* the rule the selection order of the claims picks among rules: lowest
\* priority value, and among rules of that priority the lowest id
LowestPriorityThenId(rules) ==
    CHOOSE d \in rules : \A e \in rules :
        d.priority < e.priority \/ (d.priority = e.priority /\ d.id <= e.id)

C13_PerRequestModelFlatPrice ==
    \A i \in LogIds :
        (/\ logs[i].billing_processed
         /\ logs[i].status = "success"
         /\ logs[i].model_id # 0
         /\ ModelRow(logs[i].model_id).cost_calculation_type = "request")
            => logs[i].original_cost = ModelRow(logs[i].model_id).request_cost

\* the rows an invoice of user u for a period is to cover: the user's
\* processed rows whose processed_at lies in the period
ProcessedIn(u, period) ==
    {i \in LogIds : /\ logs[i].user_id = u
                    /\ logs[i].billing_processed
                    /\ logs[i].processed_at = period}

\* C14: every row generate_monthly_bills inserts carries the count, the
\* token sum and the total_cost sum of exactly the user's processed rows
\* with processed_at in the billed month; unprocessed rows and rows
\* processed in another month contribute nothing.
C14_InvoiceSumsProcessedEvents ==
    [][\A k \in (Len(invoices) + 1)..Len(invoices') :
          LET rows == ProcessedIn(invoices'[k].user_id, invoices'[k].period)
          IN  /\ invoices'[k].total_requests = Cardinality(rows)
              /\ invoices'[k].total_tokens = SumOver(rows, "total_tokens")
              /\ invoices'[k].usage_cost = SumOver(rows, "total_cost")]_vars

\* the model worker w's resolver finds for a raw model tag (0: none)
ResolvedModel(w, tag) ==
    IF tag = NoText THEN 0
    ELSE IF w \in Tasks THEN AsyncModelFound[tag] ELSE ModelFound[tag]

\* C15: an attempt on an unprocessed row whose raw model tag resolves to no
\* model, made with retry_count below the ceiling, records an error message,
\* increases retry_count by exactly one and leaves the row unprocessed.
C15_UnresolvedModelCountsRetry ==
    [][\A w \in Workers :
          (/\ Commits(w)
           /\ logs[attempt[w].id] = attempt[w]
           /\ ~attempt[w].billing_processed
           /\ attempt[w].retry_count < MaxRetries
           /\ attempt[w].raw_model_name # NoText
           /\ ResolvedModel(w, attempt[w].raw_model_name) = 0)
              => /\ ~logs'[attempt[w].id].billing_processed
                 /\ logs'[attempt[w].id].retry_count
                        = attempt[w].retry_count + 1
                 /\ logs'[attempt[w].id].error_message # "NULL"]_vars

\* C16: no partial write: an attempt that does not mark the row processed
\* commits no change to user_id, model_id, original_cost, total_cost or
\* processed_at (a failing attempt commits error_message and retry_count
\* only).
C16_NoPartialWrite ==
    [][\A w \in Workers :
          (/\ Commits(w)
           /\ logs[attempt[w].id] = attempt[w]
           /\ ~logs'[attempt[w].id].billing_processed)
              => \A f \in {"user_id", "model_id", "original_cost",
                            "total_cost", "processed_at"} :
                     logs'[attempt[w].id][f] = logs[attempt[w].id][f]]_vars

\* the candidate rules of discount selection as the claims define them: the
\* active rules for the user or for every user, for the model or for every
\* model, valid at time t and with the usage count in their range
SelectorCandidates(user_id, model_id, count, t) ==
    {d \in DiscountRules :
        /\ d.is_active
        /\ d.user_id \in {0, user_id}
        /\ d.model_id \in {0, model_id}
        /\ (d.valid_from = NoTime \/ d.valid_from <= t)
        /\ (d.valid_until = NoTime \/ d.valid_until > t)
        /\ d.min_requests <= count
        /\ (d.max_requests = NoMax \/ count <= d.max_requests)}

\* C17: an attempt that resolves both the user and the model of an ingested
\* row and marks it processed writes as applied_discount the percentage of
\* the rule discount selection gives for that user, that model and the
\* user's request count of the month, and 0 only when no rule qualifies.
C17_ReconciliationAppliesDiscount ==
    [][\A w \in Workers :
          (/\ Commits(w)
           /\ logs[attempt[w].id] = attempt[w]
           /\ ~attempt[w].billing_processed
           /\ attempt[w].raw_model_name # NoText
           /\ logs'[attempt[w].id].billing_processed
           /\ logs'[attempt[w].id].user_id # 0
           /\ logs'[attempt[w].id].model_id # 0)
              => LET r == logs'[attempt[w].id]
                     rules == SelectorCandidates(r.user_id, r.model_id,
                                  request_count(r.user_id), now)
                 IN  r.applied_discount =
                         IF rules = {} THEN 0
                         ELSE LowestPriorityThenId(rules)
                                  .discount_percentage]_vars

C20_AggregatorFrame ==
    [][(~\E k \in 1..Len(invoices) :
            /\ k <= Len(invoices')
            /\ ~invoices[k].is_paid
            /\ invoices'[k].is_paid)
          => /\ Len(invoices') >= Len(invoices)
             /\ \A k \in 1..Len(invoices) : invoices'[k] = invoices[k]
             /\ \A k \in (Len(invoices) + 1)..Len(invoices') :
                    invoices'[k].total_cost =
                        invoices'[k].usage_cost
                            + invoices'[k].subscription_cost]_vars

\* C20's case: a bill was paid, and a later run inserted rows next to it, one
\* with usage and one with a subscription
C20_Witness ==
    \E j, k, l \in 1..Len(invoices) :
        /\ invoices[j].is_paid
        /\ invoices[j].paid_at < invoices[k].payment_due_date.tick
        /\ invoices[l].payment_due_date.tick = invoices[k].payment_due_date.tick
        /\ invoices[k].usage_cost # 0
        /\ invoices[l].subscription_cost # 0

C22_DefaultSweepSelection ==
    [][(pc'[Sweeper] = "default" /\ queue[Sweeper] = << >>
           /\ attempt[Sweeper] = NoRow /\ queue'[Sweeper] # queue[Sweeper])
          => queue'[Sweeper] =
                 Limit(OrderByCreatedAt({i \in LogIds :
                           ~logs[i].billing_processed /\ ~Exhausted(logs[i])}),
                       BatchLimit)]_vars

\* C23: every row the failed-entries sweep attempts is, when the attempt
\* reads it, unprocessed, with an error recorded and with retry_count below
\* MaxRetries (a row at or over the ceiling is never attempted by this
\* sweep); and no attempt of the sweep loop lowers a retry_count or clears
\* an error_message.
C23_FailedSweepBound ==
    /\ [][(pc[Sweeper] = "failed" /\ attempt[Sweeper] = NoRow
              /\ attempt'[Sweeper] # NoRow)
             => /\ ~attempt'[Sweeper].billing_processed
                /\ attempt'[Sweeper].error_message # "NULL"
                /\ attempt'[Sweeper].retry_count < MaxRetries]_vars
    /\ [][Commits(Sweeper) =>
              \A i \in LogIds :
                  /\ logs'[i].retry_count >= logs[i].retry_count
                  /\ (logs[i].error_message # "NULL"
                         => logs'[i].error_message # "NULL")]_vars

\* C24: a reconciliation attempt, successful or failed, writes its own row
\* only: every other row of api_usage_logs and every row of
\* monthly_billing_summary is as before (users, models, assignments and
\* discount rules are tables no step of the pipeline writes), and no step
\* removes a row of api_usage_logs.
C24_AttemptWritesOwnRowOnly ==
    /\ [][\A w \in Workers :
              Commits(w) =>
                  /\ \A i \in LogIds :
                         i # attempt[w].id => logs'[i] = logs[i]
                  /\ invoices' = invoices]_vars
    /\ [][/\ Len(logs') >= Len(logs)
           /\ \A i \in LogIds : logs'[i].id = logs[i].id]_vars

\* C24's case: an attempt has resolved the user of one row and marked the
\* row processed while another row of the same company stands untouched
C24_Witness ==
    \E i, j \in LogIds :
        /\ i # j
        /\ logs[i].billing_processed /\ logs[i].user_id # 0
        /\ logs[j].company_name = logs[i].company_name
        /\ logs[j] = RawRow(j, logs[j].raw_model_name, logs[j].total_tokens,
                            logs[j].status, logs[j].created_at)

\* model m has no usable price for row r: no token price that applies (no
\* tokens on the row, or no price per 1k tokens) and no price per request
NoUsablePrice(r, m) ==
    /\ (r.total_tokens = 0 \/ m.input_cost_per_1k_tokens = 0)
    /\ m.request_cost = 0

\* C25: an attempt that resolves a model without a usable price for the row
\* records an error and no cost and leaves the row failed for good: the row
\* is not marked processed and the sweep loop does not attempt it again.
C25_NoPriceFailsWithoutRetry ==
    /\ [][\A w \in Workers :
              (/\ Commits(w)
               /\ logs[attempt[w].id] = attempt[w]
               /\ ~attempt[w].billing_processed
               /\ ResolvedModel(w, attempt[w].raw_model_name) \in ModelIds
               /\ NoUsablePrice(attempt[w],
                      ModelRow(ResolvedModel(w, attempt[w].raw_model_name))))
                  => /\ ~logs'[attempt[w].id].billing_processed
                     /\ logs'[attempt[w].id].error_message # "NULL"
                     /\ logs'[attempt[w].id].original_cost
                            = attempt[w].original_cost
                     /\ logs'[attempt[w].id].total_cost
                            = attempt[w].total_cost]_vars
    /\ [][(attempt[Sweeper] = NoRow /\ attempt'[Sweeper] # NoRow)
             => ~(/\ attempt'[Sweeper].error_message # "NULL"
                  /\ attempt'[Sweeper].model_id # 0
                  /\ NoUsablePrice(attempt'[Sweeper],
                         ModelRow(attempt'[Sweeper].model_id)))]_vars

\* plain containment: text part occurs in text whole
Within(part, whole) ==
    \E i \in 0..(Len(whole) - Len(part)) :
        \A j \in 1..Len(part) : part[j] = whole[i + j]

\* the users each strategy of the stated order matches for company tag c,
\* compared without regard to case and surrounding blanks
UsersEqual(c) ==
    {u.id : u \in {x \in Users : Lower(x.organization_name) = Strip(Lower(c))}}

UsersContaining(c) ==
    {u.id : u \in {x \in Users :
        \/ Within(Strip(Lower(c)), Lower(x.organization_name))
        \/ Within(Lower(x.organization_name), Strip(Lower(c)))}}

UsersByEmailDomain(c) ==
    {u.id : u \in {x \in Users :
        Within(<<"@">> \o Strip(Lower(c)), Lower(x.email))}}

\* C26: a returned call of find_user_by_company answers None for the empty
\* tag; else a user whose organisation name equals the tag if there is one;
\* else a user whose organisation name contains the tag or is contained in
\* it if there is one; else a user matched by email domain if there is one;
\* else None.
C26_UserResolutionOrder ==
    (lookup.fn = "find_user_by_company" /\ lookup.returned) =>
        IF lookup.arg = NoText THEN lookup.result = 0
        ELSE IF UsersEqual(lookup.arg) # {}
             THEN lookup.result \in UsersEqual(lookup.arg)
        ELSE IF UsersContaining(lookup.arg) # {}
             THEN lookup.result \in UsersContaining(lookup.arg)
        ELSE IF UsersByEmailDomain(lookup.arg) # {}
             THEN lookup.result \in UsersByEmailDomain(lookup.arg)
        ELSE lookup.result = 0

\* model tag t misses the exact-identifier, exact-name and substring
\* strategies of find_model_by_name
MissesEarlierStrategies(t) ==
    \A m \in AIModels :
        /\ Lower(m.model_identifier) # Strip(Lower(t))
        /\ Lower(m.name) # Strip(Lower(t))
        /\ ~LikeContains(Lower(m.name), Strip(Lower(t)))
        /\ ~LikeContains(Lower(m.model_identifier), Strip(Lower(t)))

\* what follows the first underscore of tag t
RestOf(t) == Lower(SubSeq(t, FirstUnderscore(t) + 1, Len(t)))

\* the models whose identifier or name contains the rest of tag t or is
\* contained in it (an underscore standing for any one character, which is
\* what lets "email_classifier" match the name "Email Classifier")
ModelsMatchingRest(t) ==
    {m.id : m \in {x \in AIModels :
        \/ LikeContains(Lower(x.name), RestOf(t))
        \/ LikeContains(Lower(x.model_identifier), RestOf(t))
        \/ LikeContains(RestOf(t), Lower(x.name))
        \/ LikeContains(RestOf(t), Lower(x.model_identifier))}}

\* C27: a returned call of find_model_by_name on a tag <prefix>_<rest> that
\* misses the exact-identifier, exact-name and substring strategies answers
\* a model whose identifier or name contains <rest> or is contained in it,
\* when there is such a model, and None when there is none.
C27_PrefixStripFallback ==
    (/\ lookup.fn = "find_model_by_name"
     /\ lookup.returned
     /\ FirstUnderscore(lookup.arg) # 0
     /\ MissesEarlierStrategies(lookup.arg)) =>
        IF ModelsMatchingRest(lookup.arg) # {}
        THEN lookup.result \in ModelsMatchingRest(lookup.arg)
        ELSE lookup.result = 0

\* rows a and b have the same resolution, costs and processing state
SameOutcome(a, b) ==
    /\ a.user_id = b.user_id
    /\ a.model_id = b.model_id
    /\ a.original_cost = b.original_cost
    /\ a.total_cost = b.total_cost
    /\ a.billing_processed = b.billing_processed

\* C28: whichever reconciliation function makes an attempt, the attempt
\* leaves the row with the user, model, gross cost, net cost and processing
\* state that the other function would have left it with, had it made the
\* attempt on the same row at the same time.
C28_ImplementationsAgree ==
    [][\A w \in Workers :
          Commits(w) =>
              SameOutcome(
                  logs'[attempt[w].id],
                  commit(logs[attempt[w].id], attempt[w],
                         IF w \in Tasks
                         THEN process_billing_entry(attempt[w], now)
                         ELSE process_billing_entry_async(attempt[w], now)))]_vars

\* C29: a request to POST /billing/batch is answered with one id per event
\* of the batch, each the id under which the event's row was inserted, and
\* for each the background task of that row is scheduled.
C29_BatchIdsArePersistedIds ==
    [][Len(responses') > Len(responses) =>
          LET reply == responses'[Len(responses')]
          IN  /\ reply.status_code = 200
              /\ Len(reply.log_ids) = Len(logs') - Len(logs)
              /\ \A i \in 1..Len(reply.log_ids) :
                     /\ reply.log_ids[i] = Len(logs) + i
                     /\ IngestTask(reply.log_ids[i]) \in DOMAIN pc'
                     /\ pc'[IngestTask(reply.log_ids[i])] = "scheduled"]_vars

\* row r carries an ambiguous tag: its company tag equals no organisation
\* name and is within (or contains) more than one, or the rest of its model
\* tag, the tag missing the earlier strategies, matches more than one model
AmbiguousTag(r) ==
    \/ /\ r.company_name # NoText
       /\ UsersEqual(r.company_name) = {}
       /\ Cardinality(UsersContaining(r.company_name)) > 1
    \/ /\ FirstUnderscore(r.raw_model_name) # 0
       /\ MissesEarlierStrategies(r.raw_model_name)
       /\ Cardinality(ModelsMatchingRest(r.raw_model_name)) > 1

\* C30: an attempt on an unprocessed row with an ambiguous tag completes
\* without an error raised by the resolvers: its commit leaves retry_count
\* as it was and records no MultipleResultsFound error.
C30_AmbiguousTagDoesNotFail ==
    [][\A w \in Workers :
          (/\ Commits(w)
           /\ logs[attempt[w].id] = attempt[w]
           /\ ~attempt[w].billing_processed
           /\ AmbiguousTag(attempt[w]))
              => /\ logs'[attempt[w].id].retry_count = attempt[w].retry_count
                 /\ logs'[attempt[w].id].error_message
                        # "MultipleResultsFound"]_vars

=============================================================================
